---- MODULE Spec2Model ----
(***************************************************************************)
(* State-machine model of src/main.py, the F5-Spanish TTS HTTP service:    *)
(* the startup model load (load_model, install_f5_tts, startup_event), the *)
(* status handlers (/, /health, /test-synthesis) and the /synthesize       *)
(* handler with its scratch files, timer, try/finally cleanup and the      *)
(* conversion of exceptions into HTTP errors.                              *)
(*                                                                         *)
(* All handlers are coroutines (async def) of one event loop: a coroutine  *)
(* keeps the loop from the point it is resumed to its next await or its    *)
(* return.  `running` is the coroutine that holds the loop.                *)
(***************************************************************************)
EXTENDS Integers, Sequences, FiniteSets, TLC

VARIABLES
    model,        \* global model (main.py:32): None or the F5TTS instance
    device,       \* global device (main.py:34)
    loadPc,       \* position of startup_event / load_model
    loadResult,   \* what load_model returned (or that it raised)
    installCalls, \* number of calls of install_f5_tts
    constructCalls, \* number of calls of F5TTS(...)
    importError,  \* whether the first import raised ImportError
    running,      \* the coroutine that holds the event loop, or NoTask
    now,          \* the wall clock read by time.time()
    probe,        \* last response of /, /health or /test-synthesis
    pc,           \* per request: position in synthesize_speech
    text,         \* per request: form field text
    ref_text,     \* per request: form field ref_text
    speed,        \* per request: form field speed, in tenths
    remove_silence, \* per request: form field remove_silence
    start_time,   \* per request: local start_time (main.py:131)
    refFile,      \* per request: the reference scratch file exists on disk
    outFile,      \* per request: the output scratch file exists on disk
    outBound,     \* per request: 'temp_output' in locals()
    pending,      \* per request: the return value or exception in flight
    resp,         \* per request: the HTTP response
    inferCalls,   \* per request: number of calls of model.infer
    stamps,       \* per request: clock readings at the steps of the run in flight
    hist          \* per request: what was raised and what the cleanup did

vars == <<model, device, loadPc, loadResult, installCalls, constructCalls,
          importError, running, now, probe, pc, text, ref_text, speed,
          remove_silence, start_time,
          refFile, outFile, outBound, pending, resp, inferCalls, stamps, hist>>

loadVars == <<model, device, loadPc, loadResult, installCalls, constructCalls,
              importError>>

reqVars == <<pc, text, ref_text, speed, remove_silence, start_time, refFile, outFile, outBound,
             pending, resp, inferCalls, stamps, hist>>

----------------------------------------------------------------------------
(* Bounds *)

MaxLen == 2
MaxClock == 2

(* Program constants *)

SampleRate == 24000

None == "None"
NoTask == "NoTask"
Startup == "startup_event"
F5TTS == "F5TTS"

Reqs == {"r1", "r2"}

\* the request slot of the runs with one /synthesize request in flight at a time
One == {"r1"}

Alphabet == {" ", "a"}

RECURSIVE SeqsUpTo(_)
SeqsUpTo(n) ==
    IF n = 0 THEN {<<>>}
    ELSE LET S == SeqsUpTo(n - 1)
         IN  S \cup {Append(s, c) : s \in {t \in S : Len(t) = n - 1}, c \in Alphabet}

Strings == SeqsUpTo(MaxLen)

\* form fields of the runs with two requests in flight: one that passes the
\* input checks and one that does not
FewStrings == {<<"a">>, <<" ">>}

\* main.py:114-115: speed in tenths (default 1.0) and remove_silence (default True)
DefaultSpeed == 10
Speeds == {DefaultSpeed, 20}

----------------------------------------------------------------------------
(* str.strip(), len(), truthiness of a str *)

IsSpace(c) == c = " "

RECURSIVE lstrip(_)
lstrip(s) ==
    IF s # <<>> /\ IsSpace(Head(s)) THEN lstrip(Tail(s)) ELSE s

RECURSIVE rstrip(_)
rstrip(s) ==
    IF s # <<>> /\ IsSpace(s[Len(s)]) THEN rstrip(SubSeq(s, 1, Len(s) - 1)) ELSE s

strip(s) == rstrip(lstrip(s))

Truthy(s) == s # <<>>

\* main.py:123 and main.py:126: not s or not s.strip()
Blank(s) == ~Truthy(s) \/ ~Truthy(strip(s))

----------------------------------------------------------------------------
(* Responses.  The detail strings are those of main.py, written without     *)
(* their accents.  A detail is a sequence: the fixed prefix and, for a 500,  *)
(* str(e) of the exception caught.  An exception is named by the place that  *)
(* raised it; all are subclasses of Exception.                               *)

Upd(f, r, v) == [f EXCEPT ![r] = v]

NoResp ==
    [status |-> 0, detail |-> <<>>, success |-> FALSE, audio_base64 |-> "",
     format |-> "", sample_rate |-> 0, processing_time |-> 0,
     text_length |-> 0, ref_text |-> <<>>]

\* raise HTTPException(status_code=..., detail=...)
HTTPException(status_code, detail) ==
    [NoResp EXCEPT !.status = status_code, !.detail = detail]

\* main.py:199: detail=f"Error en sintesis: {str(e)}"
SynthesisErrorDetail(msg) == <<"Error en sintesis: ", msg>>

NoPending == [kind |-> "none", msg |-> "", value |-> NoResp]
Raise(msg) == [kind |-> "raise", msg |-> msg, value |-> NoResp]
Return(v) == [kind |-> "return", msg |-> "", value |-> v]

NoHist == [raised |-> "none", cleanup |-> "none"]

NoStamps == [tCreate |-> -1, tPersist |-> -1, tInfer |-> -1, tEnd |-> -1]

NoProbe == [ep |-> "none", status |-> 0, flag |-> FALSE, dev |-> ""]

----------------------------------------------------------------------------
Init ==
    /\ model = None
    /\ device = None
    /\ loadPc = "start"
    /\ loadResult = "none"
    /\ installCalls = 0
    /\ constructCalls = 0
    /\ importError = FALSE
    /\ running = NoTask
    /\ now = 0
    /\ probe = NoProbe
    /\ pc = [r \in Reqs |-> "idle"]
    /\ text = [r \in Reqs |-> <<>>]
    /\ ref_text = [r \in Reqs |-> <<>>]
    /\ speed = [r \in Reqs |-> DefaultSpeed]
    /\ remove_silence = [r \in Reqs |-> TRUE]
    /\ start_time = [r \in Reqs |-> 0]
    /\ refFile = [r \in Reqs |-> FALSE]
    /\ outFile = [r \in Reqs |-> FALSE]
    /\ outBound = [r \in Reqs |-> FALSE]
    /\ pending = [r \in Reqs |-> NoPending]
    /\ resp = [r \in Reqs |-> NoResp]
    /\ inferCalls = [r \in Reqs |-> 0]
    /\ stamps = [r \in Reqs |-> NoStamps]
    /\ hist = [r \in Reqs |-> NoHist]

\* time passes
Tick ==
    /\ now < MaxClock
    /\ now' = now + 1
    /\ UNCHANGED <<loadVars, running, probe, reqVars>>

----------------------------------------------------------------------------
(* startup_event, load_model, install_f5_tts *)

\* main.py:82-85, 53-58: the startup coroutine takes the loop and enters load_model
startup_event ==
    /\ loadPc = "start"
    /\ running = NoTask
    /\ running' = Startup
    /\ device' = "cpu"
    /\ loadPc' = "import1"
    /\ UNCHANGED <<model, loadResult, installCalls, constructCalls, importError,
                   now, probe, reqVars>>

\* main.py:62-65: from f5_tts.api import F5TTS, except ImportError
ImportFirst ==
    /\ loadPc = "import1"
    /\ \E o \in {"ok", "ImportError", "Exception"} :
          /\ loadPc' = CASE o = "ok" -> "construct"
                         [] o = "ImportError" -> "install"
                         [] OTHER -> "except"
          /\ importError' = (o = "ImportError")
    /\ UNCHANGED <<model, device, loadResult, installCalls, constructCalls,
                   running, now, probe, reqVars>>

\* where load_model goes after install_f5_tts (main.py:66, 45-47): the
\* exception is re-raised into load_model's except clause
AfterInstallRetry(ok) == IF ok THEN "import2" ELSE "install"
AfterInstall(ok) == IF ok THEN "import2" ELSE "except"

\* main.py:36-47, called at main.py:66
install_f5_tts ==
    /\ loadPc = "install"
    /\ installCalls' = installCalls + 1
    /\ \E ok \in BOOLEAN : loadPc' = AfterInstall(ok)
    /\ UNCHANGED <<model, device, loadResult, constructCalls, importError,
                   running, now, probe, reqVars>>

\* main.py:67: the second import, not guarded by the inner try
ImportSecond ==
    /\ loadPc = "import2"
    /\ \E ok \in BOOLEAN : loadPc' = IF ok THEN "construct" ELSE "except"
    /\ UNCHANGED <<model, device, loadResult, installCalls, constructCalls,
                   importError, running, now, probe, reqVars>>

\* main.py:70: model = F5TTS(...); the assignment happens only if the
\* constructor returns
Construct ==
    /\ loadPc = "construct"
    /\ constructCalls' = constructCalls + 1
    /\ \E ok \in BOOLEAN :
          IF ok THEN model' = F5TTS /\ loadPc' = "return_true"
                ELSE model' = model /\ loadPc' = "except"
    /\ UNCHANGED <<device, loadResult, installCalls, importError, running, now,
                   probe, reqVars>>

\* main.py:72-75
ReturnTrue ==
    /\ loadPc = "return_true"
    /\ loadResult' = "True"
    /\ loadPc' = "returned"
    /\ UNCHANGED <<model, device, installCalls, constructCalls, importError,
                   running, now, probe, reqVars>>

\* main.py:77-79: except Exception: log, return False
LoadExcept ==
    /\ loadPc = "except"
    /\ loadResult' = "False"
    /\ loadPc' = "returned"
    /\ UNCHANGED <<model, device, installCalls, constructCalls, importError,
                   running, now, probe, reqVars>>

\* main.py:86-89: startup_event logs the outcome and ends
StartupEnd ==
    /\ loadPc = "returned"
    /\ loadPc' = "done"
    /\ running' = NoTask
    /\ UNCHANGED <<model, device, loadResult, installCalls, constructCalls,
                   importError, now, probe, reqVars>>

load_model ==
    \/ ImportFirst
    \/ install_f5_tts
    \/ ImportSecond
    \/ Construct
    \/ ReturnTrue
    \/ LoadExcept

----------------------------------------------------------------------------
(* /, /health, /test-synthesis: coroutines without an await *)

\* main.py:91-98
root ==
    /\ running = NoTask
    /\ probe' = [ep |-> "root", status |-> 200, flag |-> (model # None),
                 dev |-> IF device # None THEN device ELSE "No disponible"]
    /\ UNCHANGED <<loadVars, running, now, reqVars>>

\* main.py:100-107
health_check ==
    /\ running = NoTask
    /\ probe' = [ep |-> "health", status |-> 200, flag |-> (model # None),
                 dev |-> ""]
    /\ UNCHANGED <<loadVars, running, now, reqVars>>

\* the model handle after /test-synthesis (main.py:201-231 never assigns it)
ModelAfterTestLazyLoad == F5TTS
ModelAfterTest == model

\* main.py:201-231
test_synthesis ==
    /\ running = NoTask
    /\ probe' = IF model = None
                THEN [ep |-> "test", status |-> 503, flag |-> FALSE, dev |-> ""]
                ELSE [ep |-> "test", status |-> 200, flag |-> TRUE, dev |-> ""]
    /\ model' = ModelAfterTest
    /\ UNCHANGED <<device, loadPc, loadResult, installCalls, constructCalls,
                   importError, running, now, reqVars>>

----------------------------------------------------------------------------
(* /synthesize: synthesize_speech, main.py:109-199 *)

\* a request arrives: its coroutine is started with its form fields, the
\* strings drawn from S
Receive(r, S) ==
    /\ running = NoTask
    /\ pc[r] = "idle"
    /\ running' = r
    /\ \E t \in S, rt \in S :
          /\ text' = Upd(text, r, t)
          /\ ref_text' = Upd(ref_text, r, rt)
    /\ \E sp \in Speeds, rs \in BOOLEAN :
          /\ speed' = Upd(speed, r, sp)
          /\ remove_silence' = Upd(remove_silence, r, rs)
    /\ pc' = Upd(pc, r, "check_model")
    /\ UNCHANGED <<loadVars, now, probe, start_time, refFile, outFile, outBound,
                   pending, resp, inferCalls, stamps, hist>>

\* the client has its response; the next request is a new one, with scratch
\* files of its own
Close(r) ==
    /\ pc[r] = "done"
    /\ pc' = Upd(pc, r, "idle")
    /\ text' = Upd(text, r, <<>>)
    /\ ref_text' = Upd(ref_text, r, <<>>)
    /\ refFile' = Upd(refFile, r, FALSE)
    /\ outFile' = Upd(outFile, r, FALSE)
    /\ resp' = Upd(resp, r, NoResp)
    /\ inferCalls' = Upd(inferCalls, r, 0)
    /\ hist' = Upd(hist, r, NoHist)
    /\ UNCHANGED <<loadVars, running, now, probe, speed, remove_silence,
                   start_time, outBound, pending, stamps>>

\* the response is sent and the coroutine ends: its locals are gone
Respond(r, v) ==
    /\ resp' = Upd(resp, r, v)
    /\ pc' = Upd(pc, r, "done")
    /\ running' = NoTask
    /\ pending' = Upd(pending, r, NoPending)
    /\ start_time' = Upd(start_time, r, 0)
    /\ outBound' = Upd(outBound, r, FALSE)
    /\ stamps' = Upd(stamps, r, NoStamps)
    /\ speed' = Upd(speed, r, DefaultSpeed)
    /\ remove_silence' = Upd(remove_silence, r, TRUE)

\* the coroutine goes on to position p
Goto(r, p) ==
    /\ pc' = Upd(pc, r, p)
    /\ UNCHANGED <<resp, running>>

\* main.py:120-127 with the input checks made before the model check
CheckModelAfterInputs(r) ==
    /\ running = r
    /\ pc[r] = "check_model"
    /\ IF Blank(text[r]) \/ Blank(ref_text[r])
       THEN Respond(r, HTTPException(400, <<"Texto requerido">>))
       ELSE IF model = None
       THEN Respond(r, HTTPException(503, <<"Modelo no cargado">>))
       ELSE /\ Goto(r, "validate")
            /\ UNCHANGED <<pending, start_time, outBound, stamps, speed, remove_silence>>
    /\ UNCHANGED <<loadVars, now, probe, text, ref_text, refFile, outFile,
                   inferCalls, hist>>

\* main.py:120-121
CheckModel(r) ==
    /\ running = r
    /\ pc[r] = "check_model"
    /\ IF model = None
       THEN Respond(r, HTTPException(503, <<"Modelo no cargado">>))
       ELSE /\ Goto(r, "validate")
            /\ UNCHANGED <<pending, start_time, outBound, stamps, speed, remove_silence>>
    /\ UNCHANGED <<loadVars, now, probe, text, ref_text, refFile, outFile,
                   inferCalls, hist>>

\* main.py:123-127 without the check of text
ValidateRefTextOnly(t, rt) ==
    IF Blank(rt)
    THEN HTTPException(400, <<"Transcripcion del audio de referencia requerida">>)
    ELSE NoResp

\* main.py:123-127: the response of the two input checks, NoResp when both pass
Validate(t, rt) ==
    IF Blank(t) THEN HTTPException(400, <<"Texto requerido">>)
    ELSE IF Blank(rt)
    THEN HTTPException(400, <<"Transcripcion del audio de referencia requerida">>)
    ELSE NoResp

\* main.py:123-127
CheckInputs(r) ==
    /\ running = r
    /\ pc[r] = "validate"
    /\ IF Validate(text[r], ref_text[r]) # NoResp
       THEN Respond(r, Validate(text[r], ref_text[r]))
       ELSE /\ Goto(r, "start_timer")
            /\ UNCHANGED <<pending, start_time, outBound, stamps, speed, remove_silence>>
    /\ UNCHANGED <<loadVars, now, probe, text, ref_text, refFile, outFile,
                   inferCalls, hist>>

\* main.py:129-131: enter the outer try, start_time = time.time()
StartTimer(r) ==
    /\ running = r
    /\ pc[r] = "start_timer"
    /\ start_time' = Upd(start_time, r, now)
    /\ Goto(r, "create_ref")
    /\ UNCHANGED <<loadVars, now, probe, text, ref_text, speed, remove_silence,
                   refFile, outFile,
                   outBound, pending, inferCalls, stamps, hist>>

\* an exception raised in the outer try but outside the inner try (main.py:134-137)
\* goes straight to the except clause of main.py:197
RaiseOuter(r, msg) ==
    /\ pending' = Upd(pending, r, Raise(msg))
    /\ hist' = Upd(hist, r, [hist[r] EXCEPT !.raised = msg])
    /\ Goto(r, "except")

\* an exception raised inside the inner try (main.py:139-186) runs the finally
\* clause of main.py:188 first
RaiseInner(r, msg) ==
    /\ pending' = Upd(pending, r, Raise(msg))
    /\ hist' = Upd(hist, r, [hist[r] EXCEPT !.raised = msg])
    /\ Goto(r, "finally")

\* main.py:134: tempfile.NamedTemporaryFile(delete=False, suffix=".wav")
CreateRefFile(r) ==
    /\ running = r
    /\ pc[r] = "create_ref"
    /\ \/ /\ refFile' = Upd(refFile, r, TRUE)
          /\ stamps' = Upd(stamps, r, [stamps[r] EXCEPT !.tCreate = now])
          /\ Goto(r, "await_read")
          /\ UNCHANGED <<pending, hist>>
       \/ /\ RaiseOuter(r, "tempfile")
          /\ UNCHANGED <<refFile, stamps>>
    /\ UNCHANGED <<loadVars, now, probe, text, ref_text, speed, remove_silence,
                   start_time, outFile,
                   outBound, inferCalls>>

\* main.py:135: await ref_audio.read() gives the loop back
AwaitRead(r) ==
    /\ running = r
    /\ pc[r] = "await_read"
    /\ running' = NoTask
    /\ pc' = Upd(pc, r, "reading")
    /\ UNCHANGED <<loadVars, now, probe, text, ref_text, speed, remove_silence,
                   start_time, refFile,
                   outFile, outBound, pending, resp, inferCalls, stamps, hist>>

\* the loop resumes a suspended coroutine whatever else is running
LoopFreeIgnored == TRUE

\* main.py:109-110: the handlers are coroutines of one event loop, which
\* resumes a suspended coroutine only when no other is running
LoopFree == running = NoTask

\* main.py:135: the read completes (or raises) and the coroutine is resumed
ResumeRead(r) ==
    /\ LoopFree
    /\ pc[r] = "reading"
    /\ running' = r
    /\ UNCHANGED resp
    /\ \/ /\ pc' = Upd(pc, r, "write_upload")
          /\ UNCHANGED <<pending, hist>>
       \/ /\ pending' = Upd(pending, r, Raise("read"))
          /\ hist' = Upd(hist, r, [hist[r] EXCEPT !.raised = "read"])
          /\ pc' = Upd(pc, r, "except")
    /\ UNCHANGED <<loadVars, now, probe, text, ref_text, speed, remove_silence,
                   start_time, refFile,
                   outFile, outBound, inferCalls, stamps>>

\* main.py:136-137: temp_audio.write(content), leave the with block
WriteUpload(r) ==
    /\ running = r
    /\ pc[r] = "write_upload"
    /\ \/ /\ Goto(r, "call_infer")
          /\ stamps' = Upd(stamps, r, [stamps[r] EXCEPT !.tPersist = now])
          /\ UNCHANGED <<pending, hist>>
       \/ /\ RaiseOuter(r, "write")
          /\ UNCHANGED stamps
    /\ UNCHANGED <<loadVars, now, probe, text, ref_text, speed, remove_silence,
                   start_time, refFile,
                   outFile, outBound, inferCalls>>

\* main.py:139-150: enter the inner try and call model.infer
CallInfer(r) ==
    /\ running = r
    /\ pc[r] = "call_infer"
    /\ inferCalls' = Upd(inferCalls, r, inferCalls[r] + 1)
    /\ stamps' = Upd(stamps, r, [stamps[r] EXCEPT !.tInfer = now])
    /\ Goto(r, "in_infer")
    /\ UNCHANGED <<loadVars, now, probe, text, ref_text, speed, remove_silence,
                   start_time, refFile,
                   outFile, outBound, pending, hist>>

\* main.py:150-161: model.infer returns or raises
InferReturn(r) ==
    /\ running = r
    /\ pc[r] = "in_infer"
    /\ \/ /\ Goto(r, "create_out")
          /\ UNCHANGED <<pending, hist>>
       \/ RaiseInner(r, "infer")
    /\ UNCHANGED <<loadVars, now, probe, text, ref_text, speed, remove_silence,
                   start_time, refFile,
                   outFile, outBound, inferCalls, stamps>>

\* main.py:164: the output scratch file; temp_output is bound once it exists
CreateOutFile(r) ==
    /\ running = r
    /\ pc[r] = "create_out"
    /\ \/ /\ outFile' = Upd(outFile, r, TRUE)
          /\ outBound' = Upd(outBound, r, TRUE)
          /\ Goto(r, "sf_write")
          /\ UNCHANGED <<pending, hist>>
       \/ /\ RaiseInner(r, "tempfile_out")
          /\ UNCHANGED <<outFile, outBound>>
    /\ UNCHANGED <<loadVars, now, probe, text, ref_text, speed, remove_silence,
                   start_time, refFile,
                   inferCalls, stamps>>

\* main.py:165-166: sf.write(temp_output.name, audio_numpy, 24000)
SfWrite(r) ==
    /\ running = r
    /\ pc[r] = "sf_write"
    /\ \/ /\ Goto(r, "read_back")
          /\ UNCHANGED <<pending, hist>>
       \/ RaiseInner(r, "sf.write")
    /\ UNCHANGED <<loadVars, now, probe, text, ref_text, speed, remove_silence,
                   start_time, refFile,
                   outFile, outBound, inferCalls, stamps>>

\* main.py:169-173: read the encoded file back and base64-encode it
ReadBack(r) ==
    /\ running = r
    /\ pc[r] = "read_back"
    /\ \/ /\ Goto(r, "stop_timer")
          /\ UNCHANGED <<pending, hist>>
       \/ RaiseInner(r, "read_back")
    /\ UNCHANGED <<loadVars, now, probe, text, ref_text, speed, remove_silence,
                   start_time, refFile,
                   outFile, outBound, inferCalls, stamps>>

\* the time since model.infer was called
ElapsedSinceInfer(r) == now - stamps[r].tInfer

\* main.py:175: time.time() - start_time
ProcessingTime(r) == now - start_time[r]

\* main.py:178-186 with the length of the trimmed text
SuccessBodyTrimmed(t, rt, ptime) ==
    [status |-> 200, detail |-> <<>>, success |-> TRUE,
     audio_base64 |-> "b64(wav)", format |-> "wav", sample_rate |-> SampleRate,
     processing_time |-> ptime, text_length |-> Len(strip(t)), ref_text |-> rt]

\* main.py:178-186: the returned dict, sent with status 200
SuccessBody(t, rt, ptime) ==
    [status |-> 200, detail |-> <<>>, success |-> TRUE,
     audio_base64 |-> "b64(wav)", format |-> "wav", sample_rate |-> SampleRate,
     processing_time |-> ptime, text_length |-> Len(t), ref_text |-> rt]

\* main.py:175-186: stop the timer and evaluate the returned dict; the return
\* is held until the finally clause has run
StopTimer(r) ==
    /\ running = r
    /\ pc[r] = "stop_timer"
    /\ pending' = Upd(pending, r,
                      Return(SuccessBody(text[r], ref_text[r], ProcessingTime(r))))
    /\ stamps' = Upd(stamps, r, [stamps[r] EXCEPT !.tEnd = now])
    /\ Goto(r, "finally")
    /\ UNCHANGED <<loadVars, now, probe, text, ref_text, speed, remove_silence,
                   start_time, refFile,
                   outFile, outBound, inferCalls, hist>>

\* main.py:190-193: what the two os.unlink calls can do; the second is made
\* only if the first succeeded and temp_output is bound
CleanupOutcomes(r) ==
    {"ok", "ref_failed"} \cup (IF outBound[r] THEN {"out_failed"} ELSE {})

\* the cleanup without its "except: pass": a failed os.unlink replaces what
\* was pending
AfterCleanupPropagate(p, o) == IF o = "ok" THEN p ELSE Raise("unlink")

\* main.py:194-195: "except: pass" leaves the pending return or exception as
\* it was
AfterCleanup(p, o) == p

\* main.py:188-195, then the held return (main.py:178) or the propagation of
\* the exception to main.py:197
Finally(r) ==
    /\ running = r
    /\ pc[r] = "finally"
    /\ \E o \in CleanupOutcomes(r) :
          /\ refFile' = Upd(refFile, r, IF o = "ref_failed" THEN refFile[r] ELSE FALSE)
          /\ outFile' = Upd(outFile, r, IF o = "ok" THEN FALSE ELSE outFile[r])
          /\ hist' = Upd(hist, r, [hist[r] EXCEPT !.cleanup = o])
          /\ LET p == AfterCleanup(pending[r], o)
             IN  IF p.kind = "return"
                 THEN Respond(r, p.value)
                 ELSE /\ pending' = Upd(pending, r, p)
                      /\ Goto(r, "except")
                      /\ UNCHANGED <<start_time, outBound, stamps, speed,
                                     remove_silence>>
    /\ UNCHANGED <<loadVars, now, probe, text, ref_text, inferCalls>>

\* main.py:199 without the exception's message
ErrorResponseGeneric(msg) == HTTPException(500, <<"Internal Server Error">>)

\* main.py:199: the HTTPException built from the caught exception
ErrorResponse(msg) == HTTPException(500, SynthesisErrorDetail(msg))

\* main.py:197-199: except Exception as e
ExceptHandler(r) ==
    /\ running = r
    /\ pc[r] = "except"
    /\ Respond(r, ErrorResponse(pending[r].msg))
    /\ UNCHANGED <<loadVars, now, probe, text, ref_text, refFile, outFile,
                   inferCalls, hist>>

synthesize_speech(r) ==
    \/ CheckModel(r)
    \/ CheckInputs(r)
    \/ StartTimer(r)
    \/ CreateRefFile(r)
    \/ AwaitRead(r)
    \/ ResumeRead(r)
    \/ WriteUpload(r)
    \/ CallInfer(r)
    \/ InferReturn(r)
    \/ CreateOutFile(r)
    \/ SfWrite(r)
    \/ ReadBack(r)
    \/ StopTimer(r)
    \/ Finally(r)
    \/ ExceptHandler(r)

----------------------------------------------------------------------------
(* Specifications *)

\* any sequence of requests, with one /synthesize request in flight at a time
Next ==
    \/ Tick
    \/ startup_event
    \/ load_model
    \/ StartupEnd
    \/ \E r \in One : Receive(r, Strings)
    \/ \E r \in One : Close(r)
    \/ \E r \in One : synthesize_speech(r)

Spec == Init /\ [][Next]_vars

\* two /synthesize requests in flight, and the status handlers
NextConcurrent ==
    \/ startup_event
    \/ load_model
    \/ StartupEnd
    \/ root
    \/ health_check
    \/ test_synthesis
    \/ \E r \in Reqs : Receive(r, FewStrings)
    \/ \E r \in Reqs : Close(r)
    \/ \E r \in Reqs : synthesize_speech(r)

SpecConcurrent == Init /\ [][NextConcurrent]_vars

----------------------------------------------------------------------------
(* Properties *)

Done(r) == pc[r] = "done"

\* the request got past the 503 and 400 checks
PastChecks(r) == resp[r].status \in {200, 500}

\* the successful return held at the finally clause
Returning(r) == pc[r] = "finally" /\ pending[r].kind = "return"

UnlinkFailed(r) == hist[r].cleanup \in {"ref_failed", "out_failed"}

\* C1: after a /synthesize call that got past the 503/400 checks, whether it
\* returns 200 or 500, no scratch file of the request exists any more.  Stated
\* for the calls most favourable to the claim: those in which no os.unlink
\* call failed.
C1_NoScratchFileRemains ==
    \A r \in Reqs :
        (Done(r) /\ PastChecks(r) /\ ~UnlinkFailed(r))
            => (~refFile[r] /\ ~outFile[r])

\* C2: a /synthesize request whose model check finds the model handle unset
\* is answered 503 at once, whatever its text and ref_text (also when they are
\* blank), without model.infer or a scratch file, and its response stays as it
\* is: it is not served later.
C2_UnavailableIs503 ==
    [][\A r \in Reqs :
          /\ (pc[r] = "check_model" /\ model = None /\ pc'[r] # pc[r])
                => /\ pc'[r] = "done"
                   /\ resp'[r] = HTTPException(503, <<"Modelo no cargado">>)
                   /\ running' = NoTask
          /\ (Done(r) /\ resp[r].status = 503)
                => /\ inferCalls[r] = 0
                   /\ ~refFile[r] /\ ~outFile[r]
                   /\ (pc'[r] = "done" => resp'[r] = resp[r])]_vars

C2_Witness ==
    \E r \in Reqs :
        /\ Done(r) /\ resp[r].status = 503
        /\ text[r] = <<" ">> /\ ref_text[r] = <<>>
        /\ loadPc = "done" /\ loadResult = "False"

\* C3 as claimed: with the model loaded, a request with a blank text or
\* ref_text is answered 400 (text first), and every other request reaches
\* model.infer.
C3_ValidReachesInfer ==
    \A r \in Reqs :
        (Done(r) /\ resp[r].status # 503)
            => /\ Blank(text[r])
                    => resp[r] = HTTPException(400, <<"Texto requerido">>)
               /\ (~Blank(text[r]) /\ Blank(ref_text[r]))
                    => resp[r] = HTTPException(400,
                          <<"Transcripcion del audio de referencia requerida">>)
               /\ (~Blank(text[r]) /\ ~Blank(ref_text[r])) => inferCalls[r] = 1

\* C3 amended: with the model loaded, a request with a blank text or ref_text
\* is answered 400 (text first); every other request passes the input checks
\* (it is answered 200 or 500, never 400) and reaches model.infer unless
\* creating the reference scratch file, reading the upload or writing it
\* raised, in which case it is answered 500 without a call of model.infer.
\* Only requests with non-blank text and ref_text are past the input checks.
C3_Validation ==
    \A r \in Reqs :
        /\ (Done(r) /\ resp[r].status # 503)
            => /\ Blank(text[r])
                    => resp[r] = HTTPException(400, <<"Texto requerido">>)
               /\ (~Blank(text[r]) /\ Blank(ref_text[r]))
                    => resp[r] = HTTPException(400,
                          <<"Transcripcion del audio de referencia requerida">>)
               /\ (~Blank(text[r]) /\ ~Blank(ref_text[r]))
                    => /\ PastChecks(r)
                       /\ \/ inferCalls[r] = 1
                          \/ /\ inferCalls[r] = 0
                             /\ resp[r].status = 500
                             /\ hist[r].raised \in {"tempfile", "read", "write"}
        /\ pc[r] \notin {"idle", "check_model", "validate", "done"}
            => (~Blank(text[r]) /\ ~Blank(ref_text[r]))

C3_Witness ==
    \E r \in Reqs :
        /\ Done(r) /\ resp[r].status = 400
        /\ text[r] = <<" ", "a">> /\ ref_text[r] = <<" ", " ">>

\* C4: the value returned on success, whatever speed and remove_silence
\* were and whatever model.infer did with the upload, and the 200 response
\* sent from it, have success true, format "wav", sample_rate 24000, the
\* submitted ref_text, and text_length the length of text as submitted, its
\* leading and trailing whitespace counted.
C4_SuccessFields ==
    \A r \in Reqs :
        /\ Returning(r)
            => /\ pending[r].value.status = 200
               /\ pending[r].value.success = TRUE
               /\ pending[r].value.format = "wav"
               /\ pending[r].value.sample_rate = 24000
               /\ pending[r].value.ref_text = ref_text[r]
               /\ pending[r].value.text_length = Len(text[r])
        /\ (Done(r) /\ resp[r].status = 200)
            => /\ resp[r].success = TRUE
               /\ resp[r].format = "wav"
               /\ resp[r].sample_rate = 24000
               /\ resp[r].ref_text = ref_text[r]
               /\ resp[r].text_length = Len(text[r])

C4_Witness ==
    \E r \in Reqs :
        /\ Returning(r)
        /\ text[r] = <<" ", "a">> /\ ref_text[r] = <<"a", " ">>
        /\ speed[r] = 20 /\ remove_silence[r] = FALSE
        /\ pending[r].value.text_length = 2

\* C5: for a request past the 503/400 checks, an exception raised while
\* writing the scratch files, in model.infer or while encoding is answered
\* with 500 and a detail that carries its message; the request ends with 200
\* or 500; model.infer is called at most once per request.
C5_ExceptionsBecome500 ==
    \A r \in Reqs :
        /\ inferCalls[r] <= 1
        /\ (Done(r) /\ hist[r].raised # "none")
              => resp[r] = HTTPException(500,
                               <<"Error en sintesis: ", hist[r].raised>>)
        /\ (Done(r) /\ resp[r].status \notin {503, 400})
              => /\ PastChecks(r)
                 /\ resp[r].status = 200 => hist[r].raised = "none"
        /\ pc[r] = "except" => pending[r].kind = "raise"

C5_Witness ==
    \E r \in Reqs :
        /\ Done(r) /\ hist[r].raised = "infer"
        /\ resp[r].status = 500 /\ inferCalls[r] = 1

\* the state of the service
ServiceState ==
    IF model # None THEN "READY"
    ELSE IF loadPc \in {"returned", "done"} THEN "UNAVAILABLE"
    ELSE "LOADING"

\* C6: the model handle is written at most once, by load_model at startup;
\* no handler changes it; the service goes from LOADING to READY or to
\* UNAVAILABLE and makes no other transition.
C6_Lifecycle ==
    [][/\ model # None => model' = model
       /\ model' # model => (running = Startup /\ loadPc = "construct")
       /\ loadPc = "done" => (loadPc' = "done" /\ model' = model)
       /\ ServiceState' # ServiceState => ServiceState = "LOADING"]_vars

C6_Witness ==
    /\ ServiceState = "UNAVAILABLE" /\ loadPc = "done"
    /\ probe.ep = "test" /\ probe.status = 503
    /\ \E r \in Reqs : Done(r) /\ resp[r].status = 503

\* C7 as claimed: the timer is started after the upload has been read and
\* persisted, so processing_time leaves out the time of reading and writing
\* the upload.
C7_TimerAfterUpload ==
    \A r \in Reqs :
        Returning(r)
            => pending[r].value.processing_time
                   <= stamps[r].tEnd - stamps[r].tPersist

\* C7 amended: the timer is started before the reference scratch file is
\* created and stopped once the output has been encoded, so processing_time
\* covers reading and writing the upload as well as inference and encoding.
C7_TimerBeforeUpload ==
    \A r \in Reqs :
        Returning(r)
            => /\ start_time[r] <= stamps[r].tCreate
               /\ stamps[r].tCreate <= stamps[r].tPersist
               /\ stamps[r].tPersist <= stamps[r].tInfer
               /\ stamps[r].tInfer <= stamps[r].tEnd
               /\ pending[r].value.processing_time
                      = stamps[r].tEnd - start_time[r]

C7_Witness ==
    \E r \in Reqs :
        /\ Returning(r)
        /\ stamps[r].tPersist > stamps[r].tCreate
        /\ pending[r].value.processing_time > stamps[r].tEnd - stamps[r].tInfer

\* C8 as claimed: nothing excludes a second request from model.infer: while
\* one request is inside model.infer, another whose upload read is being
\* awaited can be resumed and go on to its own call.
C8_NoExclusion ==
    \A r1, r2 \in Reqs :
        (pc[r1] = "in_infer" /\ pc[r2] = "reading") => ENABLED ResumeRead(r2)

\* C8 amended: there is no lock, but model.infer is called inside the
\* coroutine and blocks the event loop, so at most one request is inside
\* model.infer at a time and it is the one that holds the loop; another
\* request in flight is suspended at its await or not yet started.
C8_AtMostOneInInfer ==
    /\ Cardinality({r \in Reqs : pc[r] = "in_infer"}) <= 1
    /\ \A r \in Reqs : pc[r] = "in_infer" => running = r

C8_Witness ==
    \E r1, r2 \in Reqs :
        /\ pc[r1] = "in_infer" /\ pc[r2] = "reading"
        /\ inferCalls[r2] = 0

\* C9: a failed os.unlink in the cleanup is not surfaced: the finally clause
\* hands on the held return value or the exception in flight unchanged
\* whatever the cleanup did, and a request whose cleanup failed is answered
\* with its 200 body or with the 500 of the exception raised before.
C9_CleanupFailureSwallowed ==
    [][\A r \in Reqs :
          /\ (pc[r] = "finally" /\ pc'[r] # "finally")
                => /\ pending[r].kind = "return"
                        => (pc'[r] = "done" /\ resp'[r] = pending[r].value)
                   /\ pending[r].kind = "raise"
                        => (pc'[r] = "except" /\ pending'[r] = pending[r])
          /\ (Done(r) /\ UnlinkFailed(r))
                => IF hist[r].raised = "none"
                   THEN resp[r].status = 200 /\ resp[r].audio_base64 # ""
                   ELSE resp[r] = HTTPException(500,
                                      <<"Error en sintesis: ", hist[r].raised>>)]_vars

C9_Witness ==
    \E r \in Reqs :
        /\ Done(r) /\ hist[r].cleanup = "out_failed"
        /\ resp[r].status = 200 /\ outFile[r]

\* C10: load_model returns True only with the model handle set and False with
\* it unset, and never ends otherwise; install_f5_tts is called at most once,
\* only after the first import raised ImportError, and F5TTS(...) at most once.
C10_LoadModel ==
    /\ installCalls <= 1
    /\ constructCalls <= 1
    /\ installCalls = 1 => importError
    /\ loadPc \in {"returned", "done"}
          => /\ loadResult \in {"True", "False"}
             /\ loadResult = "True" <=> model # None
    /\ loadPc \notin {"returned", "done"} => loadResult = "none"
    /\ loadPc = "except" => model = None

C10_Witness ==
    /\ loadPc = "done" /\ loadResult = "False" /\ model = None
    /\ installCalls = 1 /\ constructCalls = 1

====
